---- MODULE Spec2Model ----
(***************************************************************************)
(* specklepy/objects/units.py: the unit registry.  Three module-level      *)
(* tables (aliases, encodings, scale factors) and six functions over them. *)
(*                                                                         *)
(* A Python str is a sequence of one-character tokens; the three non-ASCII *)
(* code points of the alias table are written "sup2" (U+00B2), "sup3"      *)
(* (U+00B3) and "middot" (U+00B7).  A Python float of the scale table is   *)
(* the exact rational its decimal literal denotes, <<numerator,            *)
(* denominator>>.  A member of the Units enum is the string of its name.   *)
(***************************************************************************)
EXTENDS Integers, Sequences, FiniteSets, TLC

VARIABLES UNITS_STRINGS, UNITS_ENCODINGS, UNIT_SCALE, user_call

tables == <<UNITS_STRINGS, UNITS_ENCODINGS, UNIT_SCALE>>
vars == <<UNITS_STRINGS, UNITS_ENCODINGS, UNIT_SCALE, user_call>>

(* ---- bounds of the explored inputs ---- *)
\* every upper/lower-case spelling of the aliases up to this length is an input
MaxVariantLen == 2
\* integers -1 .. MaxCode (and 999) are given to get_units_from_encoding
MaxCode == 16

(* ---- Python values ---- *)
\* class Units(Enum), in declaration order
Units == <<"mm", "cm", "m", "km", "inches", "feet", "yards", "miles", "none",
           "sqm", "cbm", "percent", "watts", "watts_per_sqm", "liters_per_sec_sqm">>

UnitSet == {Units[i] : i \in 1..Len(Units)}

\* a value: its type tag and one payload field per type (the others blank)
PyUnit(u) == [t |-> "Units", u |-> u, s |-> <<>>, n |-> 0, d |-> 1]
PyStr(s) == [t |-> "str", u |-> "", s |-> s, n |-> 0, d |-> 1]
PyInt(n) == [t |-> "int", u |-> "", s |-> <<>>, n |-> n, d |-> 1]
PyFloat(n, d) == [t |-> "float", u |-> "", s |-> <<>>, n |-> n, d |-> d]
PyNone == [t |-> "NoneType", u |-> "", s |-> <<>>, n |-> 0, d |-> 1]

\* the outcome of a call: a returned value or a raised exception
Return(v) == [ok |-> TRUE, val |-> v, exc |-> "", msg |-> ""]
Raise(exc, msg) == [ok |-> FALSE, val |-> PyNone, exc |-> exc, msg |-> msg]

(* ---- the tables as written in the source (dicts keep insertion order) ---- *)
UNITS_STRINGS_literal == <<
    [name |-> "mm", alternates |-> <<
        <<"m","m">>,
        <<"m","i","l">>,
        <<"m","i","l","l","i","m","e","t","e","r","s">>,
        <<"m","i","l","l","i","m","e","t","r","e","s">>
    >>],
    [name |-> "cm", alternates |-> <<
        <<"c","m">>,
        <<"c","e","n","t","i","m","e","t","r","e">>,
        <<"c","e","n","t","i","m","e","t","e","r">>,
        <<"c","e","n","t","i","m","e","t","r","e","s">>,
        <<"c","e","n","t","i","m","e","t","e","r","s">>
    >>],
    [name |-> "m", alternates |-> <<
        <<"m">>,
        <<"m","e","t","e","r">>,
        <<"m","e","t","e","r","s">>,
        <<"m","e","t","r","e">>,
        <<"m","e","t","r","e","s">>
    >>],
    [name |-> "km", alternates |-> <<
        <<"k","m">>,
        <<"k","i","l","o","m","e","t","e","r">>,
        <<"k","i","l","o","m","e","t","r","e">>,
        <<"k","i","l","o","m","e","t","e","r","s">>,
        <<"k","i","l","o","m","e","t","r","e","s">>
    >>],
    [name |-> "inches", alternates |-> <<
        <<"i","n">>,
        <<"i","n","c","h">>,
        <<"i","n","c","h","e","s">>
    >>],
    [name |-> "feet", alternates |-> <<
        <<"f","t">>,
        <<"f","o","o","t">>,
        <<"f","e","e","t">>
    >>],
    [name |-> "yards", alternates |-> <<
        <<"y","d">>,
        <<"y","a","r","d">>,
        <<"y","a","r","d","s">>
    >>],
    [name |-> "miles", alternates |-> <<
        <<"m","i">>,
        <<"m","i","l","e">>,
        <<"m","i","l","e","s">>
    >>],
    [name |-> "none", alternates |-> <<
        <<"n","o","n","e">>,
        <<"n","u","l","l">>
    >>],
    [name |-> "sqm", alternates |-> <<
        <<"s","q","m">>,
        <<"m","sup2">>,
        <<"s","q","u","a","r","e"," ","m","e","t","e","r">>,
        <<"s","q","u","a","r","e"," ","m","e","t","e","r","s">>
    >>],
    [name |-> "cbm", alternates |-> <<
        <<"c","b","m">>,
        <<"m","sup3">>,
        <<"c","u","b","i","c"," ","m","e","t","e","r">>,
        <<"c","u","b","i","c"," ","m","e","t","e","r","s">>
    >>],
    [name |-> "percent", alternates |-> <<
        <<"p","e","r","c","e","n","t">>,
        <<"%">>
    >>],
    [name |-> "watts", alternates |-> <<
        <<"W">>,
        <<"w","a","t","t">>,
        <<"w","a","t","t","s">>
    >>],
    [name |-> "watts_per_sqm", alternates |-> <<
        <<"W","/","m","sup2">>,
        <<"w","a","t","t","s"," ","p","e","r"," ","s","q","u","a","r","e"," ","m","e","t","e","r">>
    >>],
    [name |-> "liters_per_sec_sqm", alternates |-> <<
        <<"L","/","(","s","middot","m","sup2",")">>,
        <<"l","i","t","e","r","s"," ","p","e","r"," ","s","e","c","o","n","d"," ","p","e","r"," ","s","q","u","a","r","e"," ","m","e","t","e","r">>
    >>]
>>

UNITS_ENCODINGS_literal == <<
    [name |-> PyUnit("none"), encoding |-> 0],
    [name |-> PyNone, encoding |-> 0],
    [name |-> PyUnit("mm"), encoding |-> 1],
    [name |-> PyUnit("cm"), encoding |-> 2],
    [name |-> PyUnit("m"), encoding |-> 3],
    [name |-> PyUnit("km"), encoding |-> 4],
    [name |-> PyUnit("inches"), encoding |-> 5],
    [name |-> PyUnit("feet"), encoding |-> 6],
    [name |-> PyUnit("yards"), encoding |-> 7],
    [name |-> PyUnit("miles"), encoding |-> 8],
    [name |-> PyUnit("sqm"), encoding |-> 9],
    [name |-> PyUnit("cbm"), encoding |-> 10],
    [name |-> PyUnit("percent"), encoding |-> 11],
    [name |-> PyUnit("watts"), encoding |-> 12],
    [name |-> PyUnit("watts_per_sqm"), encoding |-> 13],
    [name |-> PyUnit("liters_per_sec_sqm"), encoding |-> 14]
>>

\* 0.001 is <<1, 1000>>, 1609.340 is <<1609340, 1000>>, and so on
UNIT_SCALE_literal == <<
    [name |-> PyUnit("none"), scale |-> <<1, 1>>],
    [name |-> PyUnit("mm"), scale |-> <<1, 1000>>],
    [name |-> PyUnit("cm"), scale |-> <<1, 100>>],
    [name |-> PyUnit("m"), scale |-> <<10, 10>>],
    [name |-> PyUnit("km"), scale |-> <<10000, 10>>],
    [name |-> PyUnit("inches"), scale |-> <<254, 10000>>],
    [name |-> PyUnit("feet"), scale |-> <<3048, 10000>>],
    [name |-> PyUnit("yards"), scale |-> <<9144, 10000>>],
    [name |-> PyUnit("miles"), scale |-> <<1609340, 1000>>],
    [name |-> PyUnit("sqm"), scale |-> <<10, 10>>],
    [name |-> PyUnit("cbm"), scale |-> <<10, 10>>],
    [name |-> PyUnit("percent"), scale |-> <<1, 100>>],
    [name |-> PyUnit("watts"), scale |-> <<10, 10>>],
    [name |-> PyUnit("watts_per_sqm"), scale |-> <<10, 10>>],
    [name |-> PyUnit("liters_per_sec_sqm"), scale |-> <<10, 10>>]
>>

NoCall == [op |-> "none", args |-> <<>>, res |-> Return(PyNone)]

\* Init with the encoding of cbm written 9, the encoding of sqm
Init_duplicate_encoding ==
    /\ UNITS_STRINGS = UNITS_STRINGS_literal
    /\ UNITS_ENCODINGS = [UNITS_ENCODINGS_literal EXCEPT ![12].encoding = 9]
    /\ UNIT_SCALE = UNIT_SCALE_literal
    /\ user_call = NoCall

\* Init with "m" written among the aliases of miles as well
Init_duplicate_alias ==
    /\ UNITS_STRINGS =
          [UNITS_STRINGS_literal EXCEPT ![8].alternates = Append(@, <<"m">>)]
    /\ UNITS_ENCODINGS = UNITS_ENCODINGS_literal
    /\ UNIT_SCALE = UNIT_SCALE_literal
    /\ user_call = NoCall

Init ==
    /\ UNITS_STRINGS = UNITS_STRINGS_literal
    /\ UNITS_ENCODINGS = UNITS_ENCODINGS_literal
    /\ UNIT_SCALE = UNIT_SCALE_literal
    /\ user_call = NoCall

(* ---- str.lower ---- *)
UpperCase == <<"A","B","C","D","E","F","G","H","I","J","K","L","M",
               "N","O","P","Q","R","S","T","U","V","W","X","Y","Z">>
LowerCase == <<"a","b","c","d","e","f","g","h","i","j","k","l","m",
               "n","o","p","q","r","s","t","u","v","w","x","y","z">>

\* the lower-case letter of each upper-case letter
LowerOf == [c \in {UpperCase[i] : i \in 1..Len(UpperCase)} |->
                LowerCase[CHOOSE i \in 1..Len(UpperCase) : UpperCase[i] = c]]

\* one character lowered: A-Z go to a-z, every other character is kept
lower(c) == IF c \in DOMAIN LowerOf THEN LowerOf[c] ELSE c

str_lower(s) == [i \in 1..Len(s) |-> lower(s[i])]

(* ---- the functions ---- *)
\* `x in alternates` for a list of strings
InList(x, list) == \E j \in 1..Len(list) : list[j] = x

\* the rows of UNITS_STRINGS whose alias list holds x, by position
AliasRows(x) == {i \in 1..Len(UNITS_STRINGS) : InList(x, UNITS_STRINGS[i].alternates)}

SetMin(S) == CHOOSE x \in S : \A y \in S : x <= y
SetMax(S) == CHOOSE x \in S : \A y \in S : x >= y

\* get_units_from_string without the str.lower of line 92
get_units_from_string_no_lower(unit) ==
    IF unit.t # "str"
    THEN Raise("SpeckleInvalidUnitException", "Invalid units")
    ELSE LET rows == AliasRows(unit.s)
         IN  IF rows = {}
             THEN Raise("SpeckleInvalidUnitException", "Invalid units")
             ELSE Return(PyUnit(UNITS_STRINGS[SetMin(rows)].name))

\* the loop returns at the first row that matches the lowered input
get_units_from_string(unit) ==
    IF unit.t # "str"
    THEN Raise("SpeckleInvalidUnitException", "Invalid units")
    ELSE LET lowered == str_lower(unit.s)
             rows == AliasRows(lowered)
         IN  IF rows = {}
             THEN Raise("SpeckleInvalidUnitException", "Invalid units")
             ELSE Return(PyUnit(UNITS_STRINGS[SetMin(rows)].name))

\* get_units_from_encoding with Units.none as the fallback of the whole loop
get_units_from_encoding_default_none(unit) ==
    LET rows == {i \in 1..Len(UNITS_ENCODINGS) :
                    unit.t = "int" /\ unit.n = UNITS_ENCODINGS[i].encoding}
    IN  IF rows = {}
        THEN Return(PyUnit("none"))
        ELSE Return(UNITS_ENCODINGS[SetMin(rows)].name)

\* `unit == encoding`, first row that matches; `name or Units.none`
get_units_from_encoding(unit) ==
    LET rows == {i \in 1..Len(UNITS_ENCODINGS) :
                    unit.t = "int" /\ unit.n = UNITS_ENCODINGS[i].encoding}
    IN  IF rows = {}
        THEN Raise("SpeckleException", "Could not understand what unit")
        ELSE LET name == UNITS_ENCODINGS[SetMin(rows)].name
             IN  Return(IF name.t = "NoneType" THEN PyUnit("none") ELSE name)

\* UNITS_ENCODINGS[key]: the rows whose key equals `key`
EncodingRows(key) == {i \in 1..Len(UNITS_ENCODINGS) : UNITS_ENCODINGS[i].name = key}

\* get_encoding_from_units with UNITS_ENCODINGS.get(key, 0) for the lookup
get_encoding_from_units_default_zero(unit) ==
    LET rows == IF unit.t = "str" THEN AliasRows(unit.s) ELSE {}
        maybe_sanitized_unit ==
            IF rows # {} THEN PyUnit(UNITS_STRINGS[SetMax(rows)].name) ELSE unit
        found == EncodingRows(maybe_sanitized_unit)
    IN  IF found = {}
        THEN Return(PyInt(0))
        ELSE Return(PyInt(UNITS_ENCODINGS[SetMax(found)].encoding))

\* the alias loop has no break and does not lower the input: the last row
\* that holds the string as written wins, else the raw value is looked up
get_encoding_from_units(unit) ==
    LET rows == IF unit.t = "str" THEN AliasRows(unit.s) ELSE {}
        maybe_sanitized_unit ==
            IF rows # {} THEN PyUnit(UNITS_STRINGS[SetMax(rows)].name) ELSE unit
        found == EncodingRows(maybe_sanitized_unit)
    IN  IF found = {}
        THEN Raise("SpeckleException", "No encoding exists for unit")
        ELSE Return(PyInt(UNITS_ENCODINGS[SetMax(found)].encoding))

(* ---- exact arithmetic on the scale values ---- *)
RECURSIVE GCD(_, _)
GCD(a, b) == IF b = 0 THEN a ELSE GCD(b, a % b)

\* the rational n/d in lowest terms (d > 0)
Reduce(n, d) == LET g == GCD(n, d) IN IF g = 0 THEN <<n, d>> ELSE <<n \div g, d \div g>>

ScaleRows(key) == {i \in 1..Len(UNIT_SCALE) : UNIT_SCALE[i].name = key}

get_scale_factor_to_meters(fromUnits) ==
    LET rows == ScaleRows(fromUnits)
    IN  IF rows = {}
        THEN Raise("ValueError", "Invalid units provided")
        ELSE LET sc == UNIT_SCALE[SetMax(rows)].scale
                 r == Reduce(sc[1], sc[2])
             IN  Return(PyFloat(r[1], r[2]))

\* a / b of two results; the left operand is evaluated (and may raise) first
Divide(a, b) ==
    IF ~a.ok THEN a
    ELSE IF ~b.ok THEN b
    ELSE IF b.val.n = 0 THEN Raise("ZeroDivisionError", "float division by zero")
    ELSE LET r == Reduce(a.val.n * b.val.d, a.val.d * b.val.n)
         IN  Return(PyFloat(r[1], r[2]))

\* get_scale_factor with * for /
get_scale_factor_multiply(fromUnits, toUnits) ==
    LET a == get_scale_factor_to_meters(fromUnits)
        b == get_scale_factor_to_meters(toUnits)
    IN  IF ~a.ok THEN a
        ELSE IF ~b.ok THEN b
        ELSE LET r == Reduce(a.val.n * b.val.n, a.val.d * b.val.d)
             IN  Return(PyFloat(r[1], r[2]))

get_scale_factor(fromUnits, toUnits) ==
    Divide(get_scale_factor_to_meters(fromUnits), get_scale_factor_to_meters(toUnits))

\* the arguments are parsed left to right before the call
get_scale_factor_from_string(fromUnits, toUnits) ==
    LET f == get_units_from_string(fromUnits)
        g == get_units_from_string(toUnits)
    IN  IF ~f.ok THEN f
        ELSE IF ~g.ok THEN g
        ELSE get_scale_factor(f.val, g.val)

(* ---- the inputs explored ---- *)
UpperOf == [c \in {LowerCase[i] : i \in 1..Len(LowerCase)} |->
                UpperCase[CHOOSE i \in 1..Len(LowerCase) : LowerCase[i] = c]]

upper(c) == IF c \in DOMAIN UpperOf THEN UpperOf[c] ELSE c

str_upper(s) == [i \in 1..Len(s) |-> upper(s[i])]

\* every alias, exactly as the table stores it
StoredAliases ==
    UNION {{UNITS_STRINGS_literal[i].alternates[j] :
                j \in 1..Len(UNITS_STRINGS_literal[i].alternates)} :
           i \in 1..Len(UNITS_STRINGS_literal)}

\* every spelling of s that differs from it in letter case only
CaseVariants(s) ==
    {v \in [1..Len(s) -> {lower(s[i]) : i \in 1..Len(s)} \cup {upper(s[i]) : i \in 1..Len(s)}] :
        \A i \in 1..Len(s) : lower(v[i]) = lower(s[i])}

\* strings that are no alias in any spelling
NonAliases == {<<>>, <<"x">>, <<"M","2">>, <<"m","e","t","e","r","z">>, <<"m","m"," ">>}

Strings ==
    StoredAliases
        \cup {str_upper(a) : a \in StoredAliases}
        \cup UNION {CaseVariants(a) : a \in {b \in StoredAliases : Len(b) <= MaxVariantLen}}
        \cup NonAliases

\* the one-character strings, for the calls that take two strings
ShortStrings == {s \in Strings : Len(s) <= 1}

UnitValues == {PyUnit(u) : u \in UnitSet}

\* values a caller may pass where a unit is expected
AnyValues == UnitValues \cup {PyNone, PyStr(<<"m","m">>)}

(* ---- one action per function: the call is made and its outcome recorded ---- *)
\* get_units_from_string that adds the spelling it resolved to the alias
\* list of the unit it found
Call_get_units_from_string_caching ==
    \E unit \in {PyStr(s) : s \in Strings} \cup AnyValues \cup {PyInt(123)} :
        LET res == get_units_from_string(unit)
            rows == AliasRows(str_lower(unit.s))
        IN  /\ user_call' = [op |-> "get_units_from_string", args |-> <<unit>>, res |-> res]
            /\ UNITS_STRINGS' =
                  IF res.ok /\ ~InList(unit.s, UNITS_STRINGS[SetMin(rows)].alternates)
                  THEN [UNITS_STRINGS EXCEPT ![SetMin(rows)].alternates = Append(@, unit.s)]
                  ELSE UNITS_STRINGS
            /\ UNCHANGED <<UNITS_ENCODINGS, UNIT_SCALE>>

Call_get_units_from_string ==
    /\ \E unit \in {PyStr(s) : s \in Strings} \cup AnyValues \cup {PyInt(123)} :
          user_call' = [op |-> "get_units_from_string", args |-> <<unit>>,
                  res |-> get_units_from_string(unit)]
    /\ UNCHANGED tables

Call_get_units_from_encoding ==
    /\ \E unit \in {PyInt(c) : c \in (-1..MaxCode) \cup {999}} :
          user_call' = [op |-> "get_units_from_encoding", args |-> <<unit>>,
                  res |-> get_units_from_encoding(unit)]
    /\ UNCHANGED tables

Call_get_encoding_from_units ==
    /\ \E unit \in {PyStr(s) : s \in Strings} \cup AnyValues :
          user_call' = [op |-> "get_encoding_from_units", args |-> <<unit>>,
                  res |-> get_encoding_from_units(unit)]
    /\ UNCHANGED tables

Call_get_scale_factor_from_string ==
    /\ \E fromUnits \in {PyStr(s) : s \in ShortStrings}, toUnits \in {PyStr(s) : s \in ShortStrings} :
          user_call' = [op |-> "get_scale_factor_from_string", args |-> <<fromUnits, toUnits>>,
                  res |-> get_scale_factor_from_string(fromUnits, toUnits)]
    /\ UNCHANGED tables

Call_get_scale_factor ==
    /\ \E fromUnits \in AnyValues, toUnits \in AnyValues :
          user_call' = [op |-> "get_scale_factor", args |-> <<fromUnits, toUnits>>,
                  res |-> get_scale_factor(fromUnits, toUnits)]
    /\ UNCHANGED tables

Call_get_scale_factor_to_meters ==
    /\ \E fromUnits \in AnyValues :
          user_call' = [op |-> "get_scale_factor_to_meters", args |-> <<fromUnits>>,
                  res |-> get_scale_factor_to_meters(fromUnits)]
    /\ UNCHANGED tables

Next ==
    \/ Call_get_units_from_string
    \/ Call_get_units_from_encoding
    \/ Call_get_encoding_from_units
    \/ Call_get_scale_factor_from_string
    \/ Call_get_scale_factor
    \/ Call_get_scale_factor_to_meters

Spec == Init /\ [][Next]_vars

(* ---- what the properties speak of ---- *)
Arg(k) == user_call.args[k]

\* s and t have the same length and differ, where they differ, in the case
\* of one letter
SameUpToCase(s, t) ==
    /\ Len(s) = Len(t)
    /\ \A i \in 1..Len(s) :
          \/ s[i] = t[i]
          \/ \E k \in 1..Len(UpperCase) : {s[i], t[i]} = {UpperCase[k], LowerCase[k]}

\* the product of two rationals, cancelling across before multiplying
RatMul(a, b) ==
    LET g1 == GCD(a.n, b.d)
        g2 == GCD(b.n, a.d)
    IN  Reduce((a.n \div g1) * (b.n \div g2), (a.d \div g2) * (b.d \div g1))

\* the recorded call, made again in the current state
Again ==
    CASE user_call.op = "get_units_from_string" -> get_units_from_string(Arg(1))
      [] user_call.op = "get_units_from_encoding" -> get_units_from_encoding(Arg(1))
      [] user_call.op = "get_encoding_from_units" -> get_encoding_from_units(Arg(1))
      [] user_call.op = "get_scale_factor_from_string" -> get_scale_factor_from_string(Arg(1), Arg(2))
      [] user_call.op = "get_scale_factor" -> get_scale_factor(Arg(1), Arg(2))
      [] user_call.op = "get_scale_factor_to_meters" -> get_scale_factor_to_meters(Arg(1))
      [] OTHER -> user_call.res

(* ---- properties ---- *)

\* C1: get_units_from_string given an alias exactly as the alias table stores
\* it under a unit U returns U.
C1_ParseOfStoredAlias ==
    (user_call.op = "get_units_from_string" /\ Arg(1).t = "str") =>
        \A i \in 1..Len(UNITS_STRINGS) :
            InList(Arg(1).s, UNITS_STRINGS[i].alternates) =>
                user_call.res = Return(PyUnit(UNITS_STRINGS[i].name))

\* C2: decoding the encoding of a unit gives the unit back, for each of the
\* 15 units; None encodes to 0, and 0 decodes to Units.none, never to None.
C2_RoundTrip ==
    (user_call.op = "get_encoding_from_units" /\ Arg(1).t \in {"Units", "NoneType"}) =>
        /\ user_call.res.ok
        /\ user_call.res.val.t = "int"
        /\ Arg(1).t = "Units" => get_units_from_encoding(user_call.res.val) = Return(Arg(1))
        /\ Arg(1).t = "NoneType" =>
              /\ user_call.res.val.n = 0
              /\ get_units_from_encoding(user_call.res.val) = Return(PyUnit("none"))

C2_Witness ==
    /\ user_call.op = "get_encoding_from_units"
    /\ Arg(1) = PyNone
    /\ user_call.res = Return(PyInt(0))
    /\ get_units_from_encoding(user_call.res.val) = Return(PyUnit("none"))

\* C3: get_encoding_from_units given a string that get_units_from_string
\* resolves to a unit U succeeds and returns the encoding of U.
C3_EncodeResolvesLikeParse ==
    (user_call.op = "get_encoding_from_units" /\ Arg(1).t = "str"
        /\ get_units_from_string(Arg(1)).ok) =>
        user_call.res = get_encoding_from_units(get_units_from_string(Arg(1)).val)

\* C4: get_scale_factor_to_meters given a value with no entry in the scale
\* table raises the exception kind get_units_from_string raises for an
\* unparseable string.
C4_ScaleLookupRaisesInvalidUnit ==
    (user_call.op = "get_scale_factor_to_meters"
        /\ \A i \in 1..Len(UNIT_SCALE) : UNIT_SCALE[i].name # Arg(1)) =>
        /\ ~user_call.res.ok
        /\ user_call.res.exc = get_units_from_string(PyStr(<<"x">>)).exc

\* C5: get_units_from_string has the same outcome (the same unit, or the
\* same exception) on any two strings that differ only in letter case; "MM"
\* gives Units.mm.
C5_ParseCaseInsensitive ==
    (user_call.op = "get_units_from_string" /\ Arg(1).t = "str") =>
        /\ \A t \in Strings :
              SameUpToCase(Arg(1).s, t) => get_units_from_string(PyStr(t)) = user_call.res
        /\ ~user_call.res.ok => user_call.res.exc = "SpeckleInvalidUnitException"
        /\ Arg(1).s = <<"M","M">> => user_call.res = Return(PyUnit("mm"))

C5_Witness ==
    /\ user_call.op = "get_units_from_string"
    /\ Arg(1) = PyStr(<<"M","M">>)
    /\ user_call.res = Return(PyUnit("mm"))
    /\ get_units_from_string(PyStr(<<"m","m">>)) = user_call.res

\* C6: get_units_from_encoding raises "could not understand what unit"
\* exactly for the integers outside 0..14, and returns a unit for 0..14.
C6_DecodeFailsExactlyOutsideTable ==
    user_call.op = "get_units_from_encoding" =>
        /\ user_call.res.ok <=> Arg(1).n \in 0..14
        /\ user_call.res.ok => (user_call.res.val.t = "Units" /\ user_call.res.val.u \in UnitSet)
        /\ ~user_call.res.ok =>
              /\ user_call.res.exc = "SpeckleException"
              /\ user_call.res.msg = "Could not understand what unit"

C6_Witness ==
    /\ user_call.op = "get_units_from_encoding"
    /\ Arg(1) = PyInt(999)
    /\ ~user_call.res.ok
    /\ user_call.res.msg = "Could not understand what unit"

\* C7: for units A and B get_scale_factor(A, B) is defined, its product with
\* get_scale_factor(B, A) is exactly 1, and get_scale_factor(A, A) is 1.
C7_ScaleFactorReciprocal ==
    (user_call.op = "get_scale_factor" /\ Arg(1).t = "Units" /\ Arg(2).t = "Units") =>
        /\ user_call.res.ok
        /\ user_call.res.val.t = "float"
        /\ get_scale_factor(Arg(2), Arg(1)).ok
        /\ RatMul(user_call.res.val, get_scale_factor(Arg(2), Arg(1)).val) = <<1, 1>>
        /\ Arg(1) = Arg(2) => user_call.res.val = PyFloat(1, 1)

C7_Witness ==
    /\ user_call.op = "get_scale_factor"
    /\ Arg(1) = PyUnit("miles")
    /\ Arg(2) = PyUnit("yards")
    /\ user_call.res.ok
    /\ user_call.res.val # PyFloat(1, 1)
    /\ RatMul(user_call.res.val, get_scale_factor(Arg(2), Arg(1)).val) = <<1, 1>>

\* C8: get_encoding_from_units succeeds for each of the 15 units and for
\* None, with 0 for Units.none and None and a non-zero code otherwise; for a
\* string that is no alias of any unit it raises "no encoding exists".  (A
\* string that is no alias as written covers every string that is no alias
\* in any spelling.)
C8_EncodeTotalOnUnits ==
    user_call.op = "get_encoding_from_units" =>
        /\ Arg(1).t \in {"Units", "NoneType"} =>
              /\ user_call.res.ok
              /\ user_call.res.val.n = 0 <=> Arg(1) \in {PyUnit("none"), PyNone}
        /\ (Arg(1).t = "str" /\ Arg(1).s \notin StoredAliases) =>
              /\ ~user_call.res.ok
              /\ user_call.res.exc = "SpeckleException"
              /\ user_call.res.msg = "No encoding exists for unit"

C8_Witness ==
    /\ user_call.op = "get_encoding_from_units"
    /\ Arg(1) = PyStr(<<"m","e","t","e","r","z">>)
    /\ ~user_call.res.ok
    /\ user_call.res.msg = "No encoding exists for unit"

\* C9: after any sequence of calls, failed ones included, the three tables
\* are as the module wrote them, and the call just made, made again, has the
\* outcome it had.
C9_TablesUnchanged ==
    /\ UNITS_STRINGS = UNITS_STRINGS_literal
    /\ UNITS_ENCODINGS = UNITS_ENCODINGS_literal
    /\ UNIT_SCALE = UNIT_SCALE_literal
    /\ Again = user_call.res

C9_Witness ==
    /\ user_call.op = "get_units_from_string"
    /\ Arg(1) = PyStr(<<"x">>)
    /\ ~user_call.res.ok
    /\ tables = <<UNITS_STRINGS_literal, UNITS_ENCODINGS_literal, UNIT_SCALE_literal>>

\* C10: no string is an alias of two units, as written or after lowering,
\* so the first matching row (get_units_from_string) and the last
\* (get_encoding_from_units) are the same row.
C10_AliasesDisjoint ==
    /\ \A i, j \in 1..Len(UNITS_STRINGS) : i < j =>
          \A a \in 1..Len(UNITS_STRINGS[i].alternates),
             b \in 1..Len(UNITS_STRINGS[j].alternates) :
                /\ UNITS_STRINGS[i].alternates[a] # UNITS_STRINGS[j].alternates[b]
                /\ str_lower(UNITS_STRINGS[i].alternates[a])
                      # str_lower(UNITS_STRINGS[j].alternates[b])
    /\ (user_call.op \in {"get_units_from_string", "get_encoding_from_units"}
            /\ Arg(1).t = "str") =>
          /\ Cardinality(AliasRows(Arg(1).s)) <= 1
          /\ Cardinality(AliasRows(str_lower(Arg(1).s))) <= 1

C10_Witness ==
    /\ user_call.op = "get_encoding_from_units"
    /\ Arg(1) = PyStr(<<"m">>)
    /\ Cardinality(AliasRows(Arg(1).s)) = 1
    /\ user_call.res = Return(PyInt(3))
====
